---- MODULE Spec2Model ----
(***************************************************************************)
(* A model of src/steamtrades.py: the SteamTrades plugin's do_login,       *)
(* get_trade_info and bump coroutines.  Under Spec one behaviour is one    *)
(* call of one operation on a SteamTrades instance; under ConcSpec it is   *)
(* two bump calls interleaved at their awaits.  A step is the code that    *)
(* runs between two awaited responses.  Strings are TLA+ strings, searched *)
(* and split as Python does; a page is the sequence of its elements in     *)
(* document order.                                                         *)
(***************************************************************************)
EXTENDS Integers, Sequences, FiniteSets, TLC

VARIABLES
    op,          \* the operation called: "do_login", "bump", "get_trade_info"
    pc,          \* where the coroutine stands
    trade_id,    \* get_trade_info's argument
    url,         \* get_trade_info: response.url.path
    calls,       \* the frames of two bump calls running on one instance
    trade_info,  \* bump's argument
    html,        \* the body of the response whose `async with` block is open
    form,        \* the local `form`
    data,        \* the local `data`
    text,        \* bump's local `text`: the listing page's body
    requests,    \* the requests issued on session.http so far, in order
    outcome      \* what the call returned or raised

vars == <<op, pc, trade_id, url, calls, trade_info, html, form, data, text,
          requests, outcome>>

(***************************************************************************)
(* Bounds of the model.                                                    *)
(***************************************************************************)
\* elements (other than the form) on a page
MaxElems == 2
\* input elements inside the login form
MaxLoginInputs == 2
\* input elements inside the trade page's form
MaxBumpInputs == 3

SeqUpTo(S, n) == UNION {[1..k -> S] : k \in 0..n}

(***************************************************************************)
(* Python strings.                                                         *)
(***************************************************************************)
\* `sub in s`
Contains(s, sub) ==
    \E i \in 1..(Len(s) - Len(sub) + 1) : SubSeq(s, i, i + Len(sub) - 1) = sub

\* s.split(sep) for a one-character sep
RECURSIVE Split(_, _)
Split(s, sep) ==
    IF ~Contains(s, sep)
    THEN <<s>>
    ELSE LET i == CHOOSE k \in 1..Len(s) :
                      /\ SubSeq(s, k, k) = sep
                      /\ \A j \in 1..(k - 1) : SubSeq(s, j, j) # sep
         IN  <<SubSeq(s, 1, i - 1)>> \o Split(SubSeq(s, i + 1, Len(s)), sep)

\* Python's True, which equals no str
PyTrue == "<True>"
PyFalse == "<False>"

(***************************************************************************)
(* Python dicts: functions from keys to values.                            *)
(***************************************************************************)
EmptyDict == <<>>

\* d[k] = v
DictSet(d, k, v) == [n \in DOMAIN d \cup {k} |-> IF n = k THEN v ELSE d[n]]

\* d.update(e)
DictUpdate(d, e) ==
    [n \in DOMAIN d \cup DOMAIN e |-> IF n \in DOMAIN e THEN e[n] ELSE d[n]]

(***************************************************************************)
(* BeautifulSoup: elements, find.                                          *)
(***************************************************************************)
Elem(tag, class, txt, attrs, inputs) ==
    [tag |-> tag, class |-> class, text |-> txt, attrs |-> attrs,
     inputs |-> inputs]

\* what find returns when nothing matches
None == Elem("", {}, "", EmptyDict, <<>>)

\* soup.find(tag, class_=cls): the first element of that tag carrying cls
find(soup, tag, cls) ==
    LET hits == {i \in 1..Len(soup) :
                     soup[i].tag = tag /\ cls \in soup[i].class}
    IN  IF hits = {} THEN None
        ELSE soup[CHOOSE i \in hits : \A j \in hits : i <= j]

\* soup.find(tag): the first element of that tag
findTag(soup, tag) ==
    LET hits == {i \in 1..Len(soup) : soup[i].tag = tag}
    IN  IF hits = {} THEN None
        ELSE soup[CHOOSE i \in hits : \A j \in hits : i <= j]

(***************************************************************************)
(* SteamTrades.__init__ defaults.                                          *)
(***************************************************************************)
server == "https://www.steamtrades.com"
bump_script == "ajax.php"
login_page == "https://steamtrades.com/?login"
openid_url == "https://steamcommunity.com/openid"

(***************************************************************************)
(* Outcomes of a call, and the requests it issued.                         *)
(***************************************************************************)
NoPayload == EmptyDict

NoTradeInfo == [id |-> "", title |-> "", html |-> <<>>]

Pending ==
    [kind |-> "pending", exc |-> "", payload |-> NoPayload, result |-> "",
     info |-> NoTradeInfo, id |-> "", title |-> "", time_left |-> -1]

\* raise exc(...)
Raise(exc) == [Pending EXCEPT !.kind = "raise", !.exc = exc]

\* return json_data
ReturnPayload(p) == [Pending EXCEPT !.kind = "return", !.payload = p]

Request(method, target, body) ==
    [method |-> method, url |-> target, data |-> body]

(***************************************************************************)
(* do_login, first response: the login page (lines 81-103).                *)
(***************************************************************************)
\* ClassifyLoginPage with the rate-limit banner read before the badge
ClassifyLoginPage_BannerFirst(soup) ==
    LET nav_button == find(soup, "a", "nav__button")
        warning    == find(soup, "div", "notification--warning")
    IN  IF warning # None /\ Contains(warning.text, "Please wait")
        THEN "TooFast"
        ELSE IF nav_button # None /\ Contains(nav_button.text, "Suspensions")
        THEN "UserSuspended"
        ELSE IF warning # None /\ Contains(warning.text, "public Steam profile")
        THEN "PrivateProfile"
        ELSE "LoginError"

\* the exception raised when the login page has no form
ClassifyLoginPage(soup) ==
    LET nav_button == find(soup, "a", "nav__button")
        warning    == find(soup, "div", "notification--warning")
    IN  IF nav_button # None /\ Contains(nav_button.text, "Suspensions")
        THEN "UserSuspended"
        ELSE IF warning # None /\ Contains(warning.text, "Please wait")
        THEN "TooFast"
        ELSE IF warning # None /\ Contains(warning.text, "public Steam profile")
        THEN "PrivateProfile"
        ELSE "LoginError"

\* for input_ in form.findAll('input'):
\*     with contextlib.suppress(KeyError): data[input_['name']] = input_['value']
RECURSIVE CollectSuppress(_, _)
CollectSuppress(inputs, d) ==
    IF inputs = <<>> THEN d
    ELSE LET input_ == Head(inputs)
         IN  IF "value" \in DOMAIN input_ /\ "name" \in DOMAIN input_
             THEN CollectSuppress(Tail(inputs),
                                  DictSet(d, input_["name"], input_["value"]))
             ELSE CollectSuppress(Tail(inputs), d)

(***************************************************************************)
(* do_login, second response: the identity provider's page (106-130).      *)
(***************************************************************************)
\* avatar['href'].split('/')[2], or the exception reading it raises
SteamId(avatar) ==
    IF "href" \notin DOMAIN avatar.attrs
    THEN [ok |-> FALSE, exc |-> "KeyError", value |-> ""]
    ELSE LET parts == Split(avatar.attrs["href"], "/")
         IN  IF Len(parts) < 3
             THEN [ok |-> FALSE, exc |-> "IndexError", value |-> ""]
             ELSE [ok |-> TRUE, exc |-> "", value |-> parts[3]]

\* json_data = {'success': True, 'steamid': ...}; json_data.update(data)
LoginPayload(steamid, d) ==
    DictUpdate([success |-> PyTrue, steamid |-> steamid], d)

\* OpenidOutcome with the warning banner read before the notification
OpenidOutcome_WarningFirst(soup, d) ==
    LET avatar       == find(soup, "a", "nav_avatar")
        nav_button   == find(soup, "a", "nav__button")
        notification == find(soup, "div", "notification")
        warning      == find(soup, "div", "notification--warning")
    IN  IF avatar # None
        THEN IF nav_button # None /\ Contains(nav_button.text, "Suspensions")
             THEN Raise("UserSuspended")
             ELSE LET sid == SteamId(avatar)
                  IN  IF sid.ok
                      THEN ReturnPayload(LoginPayload(sid.value, d))
                      ELSE Raise(sid.exc)
        ELSE IF warning # None /\ Contains(warning.text, "public Steam profile")
        THEN Raise("PrivateProfile")
        ELSE IF notification # None /\ Contains(notification.text, "Steam level")
        THEN Raise("UserLevelError")
        ELSE Raise("LoginError")

OpenidOutcome(soup, d) ==
    LET avatar       == find(soup, "a", "nav_avatar")
        nav_button   == find(soup, "a", "nav__button")
        notification == find(soup, "div", "notification")
        warning      == find(soup, "div", "notification--warning")
    IN  IF avatar # None
        THEN IF nav_button # None /\ Contains(nav_button.text, "Suspensions")
             THEN Raise("UserSuspended")
             ELSE LET sid == SteamId(avatar)
                  IN  IF sid.ok
                      THEN ReturnPayload(LoginPayload(sid.value, d))
                      ELSE Raise(sid.exc)
        ELSE IF notification # None /\ Contains(notification.text, "Steam level")
        THEN Raise("UserLevelError")
        ELSE IF warning # None /\ Contains(warning.text, "public Steam profile")
        THEN Raise("PrivateProfile")
        ELSE Raise("LoginError")

(***************************************************************************)
(* The pages the servers may answer with.                                  *)
(***************************************************************************)
Anchor(class, txt, attrs) == Elem("a", class, txt, attrs, <<>>)
Div(class, txt) == Elem("div", class, txt, EmptyDict, <<>>)
Form(inputs) == Elem("form", {}, "", EmptyDict, inputs)

LoginInputs ==
    { [value |-> "v1"],
      [name |-> "openid.mode"],
      [name |-> "openid.mode", value |-> "v1"],
      [name |-> "openid.mode", value |-> "v2"],
      [name |-> "success", value |-> "v1"],
      [name |-> "steamid", value |-> "v2"] }

LoginForms == {Form(i) : i \in SeqUpTo(LoginInputs, MaxLoginInputs)}

LoginElems ==
    { Anchor({"nav__button"}, "Trades", EmptyDict),
      Anchor({"nav__button"}, "Suspensions (1)", EmptyDict),
      Anchor({"nav_logo"}, "Suspensions", EmptyDict),
      Div({"notification", "notification--warning"}, "Please wait 15 seconds"),
      Div({"notification", "notification--warning"},
          "Please wait: a public Steam profile is required"),
      Div({"notification--warning"}, "Your public Steam profile is hidden"),
      Div({"notification--warning"}, "Maintenance"),
      Div({"notification"}, "Please wait") }

\* find('form') reads the first form only, and elements of different tags
\* never compete for a find: a page carries at most one form, listed last.
LoginPages ==
    {e \o f : e \in SeqUpTo(LoginElems, MaxElems),
              f \in {<<>>} \cup {<<x>> : x \in LoginForms}}

OpenidElems ==
    { Anchor({"nav_avatar"}, "", [href |-> "/user/7656"]),
      Anchor({"nav_avatar"}, "", [href |-> "/user"]),
      Anchor({"nav_avatar"}, "", EmptyDict),
      Anchor({"nav__button"}, "Trades", EmptyDict),
      Anchor({"nav__button"}, "Suspensions (1)", EmptyDict),
      Anchor({"nav_avatar", "nav__button"}, "Suspensions",
             [href |-> "/user/7656"]),
      Div({"notification"}, "Your Steam level is too low"),
      Div({"notification"}, "Welcome"),
      Div({"notification--warning"}, "Your public Steam profile is hidden"),
      Div({"notification--warning"}, "Steam level"),
      Div({"notification", "notification--warning"},
          "Steam level and public Steam profile required"),
      Div({"notification", "notification--warning"},
          "A public Steam profile is required") }

OpenidPages == SeqUpTo(OpenidElems, MaxElems)

(***************************************************************************)
(* do_login.                                                               *)
(***************************************************************************)
\* line 81: session.http.get(self.login_page)
LoginGet ==
    /\ op = "do_login" /\ pc = "start"
    /\ requests' = Append(requests, Request("GET", login_page, EmptyDict))
    /\ pc' = "await_login_page"
    /\ UNCHANGED <<op, trade_id, url, calls, trade_info,
                   html, form, data, text, outcome>>

\* LoginPageResponse reading the blocking notices before looking at the form
LoginPageResponse_NoticesFirst ==
    /\ op = "do_login" /\ pc = "await_login_page"
    /\ \E page \in LoginPages :
         /\ html' = page
         /\ form' = findTag(page, "form")
         /\ IF form' = None \/ ClassifyLoginPage(page) # "LoginError"
            THEN /\ outcome' = Raise(ClassifyLoginPage(page))
                 /\ pc' = "done"
                 /\ UNCHANGED data
            ELSE /\ data' = CollectSuppress(form'.inputs, EmptyDict)
                 /\ pc' = "post_openid"
                 /\ UNCHANGED outcome
    /\ UNCHANGED <<op, trade_id, url, calls, trade_info, text, requests>>

\* lines 82-103: the login page arrives; classify it, or collect the form's
\* fields
LoginPageResponse ==
    /\ op = "do_login" /\ pc = "await_login_page"
    /\ \E page \in LoginPages :
         /\ html' = page
         /\ form' = findTag(page, "form")
         /\ IF form' = None
            THEN /\ outcome' = Raise(ClassifyLoginPage(page))
                 /\ pc' = "done"
                 /\ UNCHANGED data
            ELSE /\ data' = CollectSuppress(form'.inputs, EmptyDict)
                 /\ pc' = "post_openid"
                 /\ UNCHANGED outcome
    /\ UNCHANGED <<op, trade_id, url, calls, trade_info, text, requests>>

\* line 105: the login page's response is released and the collected fields
\* are POSTed to the identity provider
LoginPost ==
    /\ op = "do_login" /\ pc = "post_openid"
    /\ requests' = Append(requests,
                          Request("POST", openid_url \o "/login", data))
    /\ html' = <<>>
    /\ pc' = "await_openid"
    /\ UNCHANGED <<op, trade_id, url, calls, trade_info,
                   form, data, text, outcome>>

\* lines 106-130: the identity provider's page arrives
OpenidResponse ==
    /\ op = "do_login" /\ pc = "await_openid"
    /\ \E page \in OpenidPages :
         /\ html' = page
         /\ outcome' = OpenidOutcome(page, data)
    /\ pc' = "done"
    /\ UNCHANGED <<op, trade_id, url, calls, trade_info,
                   form, data, text, requests>>

(***************************************************************************)
(* bump, before the first request (lines 140-161).                         *)
(***************************************************************************)
\* CollectStrict skipping malformed inputs, as do_login's loop does
CollectStrict_Skips(inputs, d) ==
    [ok |-> TRUE, data |-> CollectSuppress(inputs, d)]

\* for input_ in form.findAll('input'): data[input_['name']] = input_['value']
\* with nothing suppressed: the fields collected, and whether a KeyError
\* stopped the loop
RECURSIVE CollectStrict(_, _)
CollectStrict(inputs, d) ==
    IF inputs = <<>> THEN [ok |-> TRUE, data |-> d]
    ELSE LET input_ == Head(inputs)
         IN  IF "value" \in DOMAIN input_ /\ "name" \in DOMAIN input_
             THEN CollectStrict(Tail(inputs),
                                DictSet(d, input_["name"], input_["value"]))
             ELSE [ok |-> FALSE, data |-> d]

\* raise TradeClosedError(trade_info, ...)
RaiseTradeClosed(info) ==
    [Raise("TradeClosedError") EXCEPT !.id = info.id, !.title = info.title]

\* raise TradeNotReadyError(trade_info, time_left, ...)
RaiseTradeNotReady(info, minutes) ==
    [Raise("TradeNotReadyError") EXCEPT
        !.id = info.id, !.title = info.title, !.time_left = minutes]

\* ReturnBool with the two branches of lines 177-180 swapped
ReturnBool_Swapped(b) ==
    [Pending EXCEPT !.kind = "return", !.result = IF b THEN PyFalse ELSE PyTrue]

\* return True / return False
ReturnBool(b) ==
    [Pending EXCEPT !.kind = "return", !.result = IF b THEN PyTrue ELSE PyFalse]

\* BumpPayload as {'do': 'trade_bump', **data}: every collected field sent,
\* the form's own 'do' field included
BumpPayload_AllFields(d) == DictUpdate([do |-> "trade_bump"], d)

\* payload = {'code': data['code'], 'xsrf_token': data['xsrf_token'],
\*            'do': 'trade_bump'}
BumpPayload(d) ==
    [code |-> d["code"], xsrf_token |-> d["xsrf_token"], do |-> "trade_bump"]

\* BumpPrecheck with the open-trade marker read before the login indicator
BumpPrecheck_ClosedFirst(info) ==
    LET soup      == info.html
        f         == findTag(soup, "form")
        collected == CollectStrict(f.inputs, EmptyDict)
    IN  IF find(soup, "div", "js_trade_open") # None THEN "TradeClosedError"
        ELSE IF find(soup, "a", "nav_avatar") = None THEN "LoginError"
        ELSE IF f = None THEN "NoTradesError"
        ELSE IF ~collected.ok THEN "KeyError"
        ELSE IF "code" \notin DOMAIN collected.data THEN "KeyError"
        ELSE IF "xsrf_token" \notin DOMAIN collected.data THEN "KeyError"
        ELSE ""

\* BumpPrecheck with the form looked for before the open-trade marker
BumpPrecheck_FormFirst(info) ==
    LET soup      == info.html
        f         == findTag(soup, "form")
        collected == CollectStrict(f.inputs, EmptyDict)
    IN  IF find(soup, "a", "nav_avatar") = None THEN "LoginError"
        ELSE IF f = None THEN "NoTradesError"
        ELSE IF find(soup, "div", "js_trade_open") # None
        THEN "TradeClosedError"
        ELSE IF ~collected.ok THEN "KeyError"
        ELSE IF "code" \notin DOMAIN collected.data THEN "KeyError"
        ELSE IF "xsrf_token" \notin DOMAIN collected.data THEN "KeyError"
        ELSE ""

\* BumpPrecheck without the except clause: None.findAll's AttributeError
BumpPrecheck_NoExcept(info) ==
    LET soup      == info.html
        f         == findTag(soup, "form")
        collected == CollectStrict(f.inputs, EmptyDict)
    IN  IF find(soup, "a", "nav_avatar") = None THEN "LoginError"
        ELSE IF find(soup, "div", "js_trade_open") # None
        THEN "TradeClosedError"
        ELSE IF f = None THEN "AttributeError"
        ELSE IF ~collected.ok THEN "KeyError"
        ELSE IF "code" \notin DOMAIN collected.data THEN "KeyError"
        ELSE IF "xsrf_token" \notin DOMAIN collected.data THEN "KeyError"
        ELSE ""

\* lines 140-161: what bump does with trade_info.html before any request:
\* the exception it raises, or "" when it goes on to the POST
BumpPrecheck(info) ==
    LET soup      == info.html
        f         == findTag(soup, "form")
        collected == CollectStrict(f.inputs, EmptyDict)
    IN  IF find(soup, "a", "nav_avatar") = None THEN "LoginError"
        ELSE IF find(soup, "div", "js_trade_open") # None
        THEN "TradeClosedError"
        ELSE IF f = None THEN "NoTradesError"
        ELSE IF ~collected.ok THEN "KeyError"
        ELSE IF "code" \notin DOMAIN collected.data THEN "KeyError"
        ELSE IF "xsrf_token" \notin DOMAIN collected.data THEN "KeyError"
        ELSE ""

(***************************************************************************)
(* bump, the bump endpoint's answer (lines 168-172).                       *)
(***************************************************************************)
Digits == <<"0", "1", "2", "3", "4", "5", "6", "7", "8", "9">>

IsDigit(c) == \E d \in 1..10 : Digits[d] = c

DigitValue(c) == (CHOOSE d \in 1..10 : Digits[d] = c) - 1

RECURSIVE DecimalValue(_)
DecimalValue(s) ==
    IF s = "" THEN 0
    ELSE 10 * DecimalValue(SubSeq(s, 1, Len(s) - 1))
         + DigitValue(SubSeq(s, Len(s), Len(s)))

\* int(s) for a str without spaces: a sign and decimal digits, or ValueError
ParseInt(s) ==
    LET signed == Len(s) > 0 /\ SubSeq(s, 1, 1) \in {"-", "+"}
        digits == IF signed THEN SubSeq(s, 2, Len(s)) ELSE s
    IN  IF digits = "" \/ \E i \in 1..Len(digits) : ~IsDigit(SubSeq(digits, i, i))
        THEN [ok |-> FALSE, value |-> 0]
        ELSE [ok |-> TRUE,
              value |-> IF signed /\ SubSeq(s, 1, 1) = "-"
                        THEN 0 - DecimalValue(digits)
                        ELSE DecimalValue(digits)]

\* MinutesLeft reading split(' ')[2], the token before the minutes
MinutesLeft_ThirdToken(body) ==
    IF body.json = <<>> THEN [ok |-> FALSE, exc |-> "JSONDecodeError", value |-> 0]
    ELSE LET obj == body.json[1]
         IN  IF "popup_heading_h2" \notin DOMAIN obj
             THEN [ok |-> FALSE, exc |-> "KeyError", value |-> 0]
             ELSE IF Len(obj["popup_heading_h2"]) = 0
             THEN [ok |-> FALSE, exc |-> "IndexError", value |-> 0]
             ELSE LET error  == obj["popup_heading_h2"][1]
                      tokens == Split(error, " ")
                  IN  IF Len(tokens) < 3
                      THEN [ok |-> FALSE, exc |-> "IndexError", value |-> 0]
                      ELSE LET n == ParseInt(tokens[3])
                           IN  IF n.ok
                               THEN [ok |-> TRUE, exc |-> "", value |-> n.value]
                               ELSE [ok |-> FALSE, exc |-> "ValueError",
                                     value |-> 0]

\* error = json.loads(html)['popup_heading_h2'][0]
\* minutes_left = int(error.split(' ')[3])
\* body.json is what json.loads makes of body.text: <<>> when it raises
\* JSONDecodeError, else <<the object>>
MinutesLeft(body) ==
    IF body.json = <<>> THEN [ok |-> FALSE, exc |-> "JSONDecodeError", value |-> 0]
    ELSE LET obj == body.json[1]
         IN  IF "popup_heading_h2" \notin DOMAIN obj
             THEN [ok |-> FALSE, exc |-> "KeyError", value |-> 0]
             ELSE IF Len(obj["popup_heading_h2"]) = 0
             THEN [ok |-> FALSE, exc |-> "IndexError", value |-> 0]
             ELSE LET error  == obj["popup_heading_h2"][1]
                      tokens == Split(error, " ")
                  IN  IF Len(tokens) < 4
                      THEN [ok |-> FALSE, exc |-> "IndexError", value |-> 0]
                      ELSE LET n == ParseInt(tokens[4])
                           IN  IF n.ok
                               THEN [ok |-> TRUE, exc |-> "", value |-> n.value]
                               ELSE [ok |-> FALSE, exc |-> "ValueError",
                                     value |-> 0]

\* 'Please wait another' in html
IsCooldown(body) == Contains(body.text, "Please wait another")

(***************************************************************************)
(* The trade pages bump is given and the answers it may receive.           *)
(***************************************************************************)
BumpInputs ==
    { [name |-> "code", value |-> "c0de"],
      [name |-> "code", value |-> "c1"],
      [name |-> "xsrf_token", value |-> "x5rf"],
      [name |-> "do", value |-> "comment"],
      [name |-> "code"],
      [value |-> "x5rf"] }

BumpForms == {Form(i) : i \in SeqUpTo(BumpInputs, MaxBumpInputs)}

TradeElems ==
    { Anchor({"nav_avatar"}, "", [href |-> "/user/7656"]),
      Anchor({"nav__button"}, "Sign in", EmptyDict),
      Div({"js_trade_open"}, "Open"),
      Div({"js_trade_close"}, "Close") }

TradePages ==
    {e \o f : e \in SeqUpTo(TradeElems, MaxElems),
              f \in {<<>>} \cup {<<x>> : x \in BumpForms}}

TradeInfos ==
    {[id |-> i.id, title |-> i.title, html |-> h] :
        i \in {[id |-> "Uq1x", title |-> "some long trade title ..."],
               [id |-> "77", title |-> "keys..."]},
        h \in TradePages}

Body(t, j) == [text |-> t, json |-> j]

BumpBodies ==
    { Body("<div>Bumped</div>", <<>>),
      Body("", <<>>),
      Body("{\"popup_heading_h2\":[\"Please wait another 7 minutes\"]}",
           <<[popup_heading_h2 |-> <<"Please wait another 7 minutes">>]>>),
      Body("{\"popup_heading_h2\":[\"Please wait another 12 minutes\",\"x\"]}",
           <<[popup_heading_h2 |-> <<"Please wait another 12 minutes", "x">>]>>),
      Body("{\"popup_heading_h2\":[\"Please wait another  7 minutes\"]}",
           <<[popup_heading_h2 |-> <<"Please wait another  7 minutes">>]>>),
      Body("{\"popup_heading_h2\":[\"Please wait another\"]}",
           <<[popup_heading_h2 |-> <<"Please wait another">>]>>),
      Body("{\"popup_heading_h2\":[\"Please wait another few minutes\"]}",
           <<[popup_heading_h2 |-> <<"Please wait another few minutes">>]>>),
      Body("{\"popup_heading_h2\":[],\"msg\":[\"Please wait another 7 minutes\"]}",
           <<[popup_heading_h2 |-> <<>>,
              msg |-> <<"Please wait another 7 minutes">>]>>),
      Body("{\"msg\":[\"Please wait another 7 minutes\"]}",
           <<[msg |-> <<"Please wait another 7 minutes">>]>>),
      Body("<p>Please wait another 7 minutes</p>", <<>>),
      Body("{\"popup_heading_h2\":[\"Please wait 7 minutes\"]}",
           <<[popup_heading_h2 |-> <<"Please wait 7 minutes">>]>>) }

ListingTexts ==
    { "", "<a href=\"/trade/Uq1x/some-long\">t</a>",
      "<a href=\"/trade/9770/keys\">k</a>", "<p>No trades</p>" }

(***************************************************************************)
(* bump.                                                                   *)
(***************************************************************************)
\* lines 140-167: check trade_info.html, collect the form's fields and POST
\* the bump
BumpStart ==
    /\ op = "bump" /\ pc = "start"
    /\ LET soup      == trade_info.html
           exc       == BumpPrecheck(trade_info)
           reached   == exc \notin {"LoginError", "TradeClosedError"}
           f         == findTag(soup, "form")
           collected == CollectStrict(f.inputs, EmptyDict)
       IN  /\ form' = IF reached THEN f ELSE form
           /\ data' = IF reached /\ f # None THEN collected.data ELSE data
           /\ IF exc = ""
              THEN /\ requests' = Append(requests,
                          Request("POST", server \o "/" \o bump_script,
                                  BumpPayload(collected.data)))
                   /\ pc' = "await_bump"
                   /\ UNCHANGED outcome
              ELSE /\ outcome' = IF exc = "TradeClosedError"
                                 THEN RaiseTradeClosed(trade_info)
                                 ELSE Raise(exc)
                   /\ pc' = "done"
                   /\ UNCHANGED requests
    /\ UNCHANGED <<op, trade_id, url, calls, trade_info, html, text>>

\* BumpResponse that POSTs the bump again on a cooldown instead of raising
BumpResponse_Retry ==
    /\ op = "bump" /\ pc = "await_bump"
    /\ \E body \in BumpBodies :
         /\ html' = body
         /\ IF IsCooldown(body)
            THEN /\ requests' = Append(requests, requests[1])
                 /\ pc' = "await_bump"
                 /\ UNCHANGED outcome
            ELSE /\ requests' = Append(requests,
                        Request("POST", server \o "/trades", EmptyDict))
                 /\ pc' = "await_listing"
                 /\ UNCHANGED outcome
    /\ UNCHANGED <<op, trade_id, url, calls, trade_info, form, data, text>>

\* lines 168-174: the bump endpoint's answer arrives: a cooldown, or else the
\* listing is requested
BumpResponse ==
    /\ op = "bump" /\ pc = "await_bump"
    /\ \E body \in BumpBodies :
         /\ html' = body
         /\ IF IsCooldown(body)
            THEN LET m == MinutesLeft(body)
                 IN  /\ outcome' = IF m.ok
                                   THEN RaiseTradeNotReady(trade_info, m.value)
                                   ELSE Raise(m.exc)
                     /\ pc' = "done"
                     /\ UNCHANGED requests
            ELSE /\ requests' = Append(requests,
                        Request("POST", server \o "/trades", EmptyDict))
                 /\ pc' = "await_listing"
                 /\ UNCHANGED outcome
    /\ UNCHANGED <<op, trade_id, url, calls, trade_info, form, data, text>>

\* lines 175-180: the listing arrives
BumpListing ==
    /\ op = "bump" /\ pc = "await_listing"
    /\ \E t \in ListingTexts :
         /\ text' = t
         /\ outcome' = ReturnBool(Contains(t, trade_info.id))
    /\ pc' = "done"
    /\ UNCHANGED <<op, trade_id, url, calls, trade_info,
                   html, form, data, requests>>

(***************************************************************************)
(* get_trade_info (lines 132-137).                                         *)
(***************************************************************************)
\* the slice bound of line 135
TitleLen == 22

\* os.path.basename(path): what follows the last '/'
Basename(path) == LET parts == Split(path, "/") IN parts[Len(parts)]

\* s.replace(old, new) for one-character old and new
RECURSIVE Replace(_, _, _)
Replace(s, old, new) ==
    IF s = "" THEN ""
    ELSE (IF SubSeq(s, 1, 1) = old THEN new ELSE SubSeq(s, 1, 1))
         \o Replace(SubSeq(s, 2, Len(s)), old, new)

\* s[:n]
Prefix(s, n) == SubSeq(s, 1, IF Len(s) < n THEN Len(s) ELSE n)

\* TitleOf with the ellipsis appended only to a title that was cut
TitleOf_EllipsisIfCut(path) ==
    LET t == Replace(Basename(path), "-", " ")
    IN  IF Len(t) > TitleLen THEN Prefix(t, TitleLen) \o "..." ELSE t

\* os.path.basename(response.url.path).replace('-', ' ')[:22] + '...'
TitleOf(path) == Prefix(Replace(Basename(path), "-", " "), TitleLen) \o "..."

\* return TradeInfo(id_, title, html)
ReturnInfo(id_, title, body) ==
    [Pending EXCEPT !.kind = "return",
                    !.info = [id |-> id_, title |-> title, html |-> body]]

\* lines 134-137 on a response with that path and body
TradeInfoOf(path, body) ==
    LET parts == Split(path, "/")
    IN  IF Len(parts) < 3 THEN Raise("IndexError")
        ELSE ReturnInfo(parts[3], TitleOf(path), body)

TradeIds == {"123", "Uq1x", "uq1x-keys"}

InfoPaths ==
    { "/trade/123/some-long-trade-title-here",
      "/trade/123/a-title-of-22-chars-xy",
      "/trade/123/a-title-of-23-chars-xyz",
      "/trade/Uq1x/keys",
      "/trade/Uq1x/",
      "/trade/Uq1x",
      "/trades",
      "/" }

InfoBodies ==
    { <<>>,
      <<Anchor({"nav_avatar"}, "", [href |-> "/user/7656"]),
        Form(<<[name |-> "code", value |-> "c0de"],
               [name |-> "xsrf_token", value |-> "x5rf"]>>)>> }

\* line 133: session.http.get(f'{self.server}/trade/{trade_id}/')
GetTradeInfoGet ==
    /\ op = "get_trade_info" /\ pc = "start"
    /\ requests' = Append(requests,
           Request("GET", server \o "/trade/" \o trade_id \o "/", EmptyDict))
    /\ pc' = "await_trade"
    /\ UNCHANGED <<op, trade_id, url, calls, trade_info, html, form, data,
                   text, outcome>>

\* lines 134-137: the response arrives, with its resolved URL and its body
GetTradeInfoResponse ==
    /\ op = "get_trade_info" /\ pc = "await_trade"
    /\ \E path \in InfoPaths, body \in InfoBodies :
         /\ url' = path
         /\ IF Len(Split(path, "/")) < 3
            THEN UNCHANGED html
            ELSE html' = body
         /\ outcome' = TradeInfoOf(path, body)
    /\ pc' = "done"
    /\ UNCHANGED <<op, trade_id, calls, trade_info, form, data, text,
                   requests>>

(***************************************************************************)
(* One call of one operation.                                              *)
(***************************************************************************)
Init ==
    /\ op \in {"do_login", "bump", "get_trade_info"}
    /\ pc = "start"
    /\ trade_id \in IF op = "get_trade_info" THEN TradeIds ELSE {""}
    /\ url = ""
    /\ calls = <<>>
    /\ trade_info \in IF op = "bump" THEN TradeInfos ELSE {NoTradeInfo}
    /\ html = <<>>
    /\ form = None
    /\ data = EmptyDict
    /\ text = ""
    /\ requests = <<>>
    /\ outcome = Pending

Next ==
    \/ LoginGet
    \/ LoginPageResponse
    \/ LoginPost
    \/ OpenidResponse
    \/ BumpStart
    \/ BumpResponse
    \/ BumpListing
    \/ GetTradeInfoGet
    \/ GetTradeInfoResponse

Spec == Init /\ [][Next]_vars

(***************************************************************************)
(* Two bump calls on one instance, interleaved at their awaits.  Each call *)
(* has its own frame of locals; the instance and its session are shared.   *)
(***************************************************************************)
Calls == {1, 2}

OkPage ==
    <<Anchor({"nav_avatar"}, "", [href |-> "/user/7656"]),
      Form(<<[name |-> "code", value |-> "c0de"],
             [name |-> "xsrf_token", value |-> "x5rf"]>>)>>

ClosedPage ==
    <<Anchor({"nav_avatar"}, "", [href |-> "/user/7656"]),
      Div({"js_trade_open"}, "Open")>>

ConcInfos ==
    { [id |-> "Uq1x", title |-> "some long trade title ...", html |-> OkPage],
      [id |-> "77", title |-> "keys...", html |-> OkPage],
      [id |-> "77", title |-> "keys...", html |-> ClosedPage] }

\* the locals of a bump call that has not run yet
Frame(info) ==
    [pc |-> "start", trade_info |-> info, html |-> <<>>, text |-> "",
     form |-> None, data |-> EmptyDict, outcome |-> Pending]

\* Argument reading a trade_info the first call left on the instance
Argument_OnInstance(c) == calls.frame[1].trade_info

\* the trade_info call c's code reads: the parameter in its own frame
Argument(c) == calls.frame[c].trade_info

\* a request of call c on the shared session
SessionRequest(c, method, target, body) ==
    [call |-> c, method |-> method, url |-> target, data |-> body]

\* lines 140-167 in call c
ConcBumpStart ==
    \E c \in Calls :
        LET f         == calls.frame[c]
            info      == Argument(c)
            exc       == BumpPrecheck(info)
            reached   == exc \notin {"LoginError", "TradeClosedError"}
            fm        == findTag(info.html, "form")
            collected == CollectStrict(fm.inputs, EmptyDict)
            g         == [f EXCEPT
                            !.form = IF reached THEN fm ELSE f.form,
                            !.data = IF reached /\ fm # None
                                     THEN collected.data ELSE f.data]
        IN  /\ op = "bumps" /\ f.pc = "start"
            /\ IF exc = ""
               THEN calls' = [calls EXCEPT
                      !.frame[c] = [g EXCEPT !.pc = "await_bump"],
                      !.session = Append(calls.session,
                          SessionRequest(c, "POST", server \o "/" \o bump_script,
                                         BumpPayload(collected.data)))]
               ELSE calls' = [calls EXCEPT
                      !.frame[c] = [g EXCEPT
                          !.pc = "done",
                          !.outcome = IF exc = "TradeClosedError"
                                      THEN RaiseTradeClosed(info)
                                      ELSE Raise(exc)]]
            /\ UNCHANGED <<op, pc, trade_id, url, trade_info, html, form, data,
                           text, requests, outcome>>

\* lines 168-174 in call c
ConcBumpResponse ==
    \E c \in Calls, body \in BumpBodies :
        LET f    == calls.frame[c]
            info == Argument(c)
            m    == MinutesLeft(body)
        IN  /\ op = "bumps" /\ f.pc = "await_bump"
            /\ IF IsCooldown(body)
               THEN calls' = [calls EXCEPT
                      !.frame[c] = [f EXCEPT
                          !.html = body,
                          !.pc = "done",
                          !.outcome = IF m.ok
                                      THEN RaiseTradeNotReady(info, m.value)
                                      ELSE Raise(m.exc)]]
               ELSE calls' = [calls EXCEPT
                      !.frame[c] = [f EXCEPT !.html = body,
                                             !.pc = "await_listing"],
                      !.session = Append(calls.session,
                          SessionRequest(c, "POST", server \o "/trades",
                                         EmptyDict))]
            /\ UNCHANGED <<op, pc, trade_id, url, trade_info, html, form, data,
                           text, requests, outcome>>

\* lines 175-180 in call c
ConcBumpListing ==
    \E c \in Calls, t \in ListingTexts :
        LET f    == calls.frame[c]
            info == Argument(c)
        IN  /\ op = "bumps" /\ f.pc = "await_listing"
            /\ calls' = [calls EXCEPT
                   !.frame[c] = [f EXCEPT
                       !.text = t,
                       !.pc = "done",
                       !.outcome = ReturnBool(Contains(t, info.id))]]
            /\ UNCHANGED <<op, pc, trade_id, url, trade_info, html, form, data,
                           text, requests, outcome>>

ConcInit ==
    /\ op = "bumps"
    /\ pc = "start"
    /\ trade_id = ""
    /\ url = ""
    /\ calls \in {[frame |-> [c \in Calls |-> Frame(i[c])], session |-> <<>>] :
                     i \in [Calls -> ConcInfos]}
    /\ trade_info = NoTradeInfo
    /\ html = <<>>
    /\ form = None
    /\ data = EmptyDict
    /\ text = ""
    /\ requests = <<>>
    /\ outcome = Pending

ConcNext ==
    \/ ConcBumpStart
    \/ ConcBumpResponse
    \/ ConcBumpListing

ConcSpec == ConcInit /\ [][ConcNext]_vars

(***************************************************************************)
(* Properties.                                                             *)
(***************************************************************************)
\* the call has ended
Done == pc = "done"

\* a do_login call that ended on the identity provider's page
LoginEndedAtOpenid == op = "do_login" /\ Done /\ Len(requests) = 2

\* a do_login call that ended on the login page
LoginEndedAtLoginPage == op = "do_login" /\ Done /\ Len(requests) = 1

\* the well-formed inputs of a form: those with a name and a value
WellFormed(inputs) ==
    {i \in 1..Len(inputs) :
        "name" \in DOMAIN inputs[i] /\ "value" \in DOMAIN inputs[i]}

\* bump's argument shows the login indicator / the open-trade marker / a form
HasAvatar == find(trade_info.html, "a", "nav_avatar") # None
HasOpenMarker == find(trade_info.html, "div", "js_trade_open") # None
HasForm == findTag(trade_info.html, "form") # None

\* C1: bump on a TradeInfo whose html has no nav_avatar link fails with
\* LoginError, with no token extracted and no request issued, whatever else
\* the html contains.
C1_NoAvatarRefused ==
    (op = "bump" /\ pc # "start" /\ ~HasAvatar) =>
        /\ Done
        /\ outcome = Raise("LoginError")
        /\ requests = <<>>
        /\ form = None /\ data = EmptyDict

C1_Witness ==
    /\ op = "bump" /\ Done /\ ~HasAvatar /\ HasOpenMarker /\ HasForm
    /\ LET f == findTag(trade_info.html, "form")
       IN  {f.inputs[i]["name"] : i \in WellFormed(f.inputs)}
               = {"code", "xsrf_token"}
    /\ outcome.exc = "LoginError"

\* C2 (as claimed): do_login ends with the payload or with one of the five
\* classified login failures, and nothing else.
C2_OnlyClassifiedOutcomes ==
    (op = "do_login" /\ Done) =>
        \/ outcome.kind = "return"
        \/ /\ outcome.kind = "raise"
           /\ outcome.exc \in {"UserSuspended", "TooFast", "PrivateProfile",
                               "UserLevelError", "LoginError"}

\* C3: a login page without a form is classified first match wins: badge
\* with 'Suspensions', then banner with 'Please wait', then banner with
\* 'public Steam profile', else LoginError; and nothing is POSTed.
C3_LoginPageFirstMatch ==
    (LoginEndedAtLoginPage) =>
        LET nav_button == find(html, "a", "nav__button")
            warning    == find(html, "div", "notification--warning")
            suspended  == nav_button # None
                          /\ Contains(nav_button.text, "Suspensions")
            wait       == warning # None
                          /\ Contains(warning.text, "Please wait")
            private    == warning # None
                          /\ Contains(warning.text, "public Steam profile")
        IN  /\ findTag(html, "form") = None
            /\ outcome.kind = "raise"
            /\ suspended => outcome.exc = "UserSuspended"
            /\ (~suspended /\ wait) => outcome.exc = "TooFast"
            /\ (~suspended /\ ~wait /\ private) => outcome.exc = "PrivateProfile"
            /\ (~suspended /\ ~wait /\ ~private) => outcome.exc = "LoginError"
            /\ \A i \in 1..Len(requests) : requests[i].method # "POST"

C3_Witness ==
    /\ LoginEndedAtLoginPage
    /\ \E i, j \in 1..Len(html) :
         /\ "nav__button" \in html[i].class
         /\ Contains(html[i].text, "Suspensions")
         /\ "notification--warning" \in html[j].class
         /\ Contains(html[j].text, "Please wait")
         /\ Contains(html[j].text, "public Steam profile")
    /\ outcome.exc = "UserSuspended"

\* C4 (as claimed): on the identity provider's page, avatar and suspension
\* badge give UserSuspended; avatar without the badge gives a payload whose
\* steamid is the avatar link's third path segment.
C4_AvatarBranch ==
    (LoginEndedAtOpenid /\ find(html, "a", "nav_avatar") # None) =>
        LET avatar     == find(html, "a", "nav_avatar")
            nav_button == find(html, "a", "nav__button")
            suspended  == nav_button # None
                          /\ Contains(nav_button.text, "Suspensions")
        IN  /\ suspended => outcome = Raise("UserSuspended")
            /\ ~suspended =>
                 /\ outcome.kind = "return"
                 /\ "href" \in DOMAIN avatar.attrs
                 /\ Len(Split(avatar.attrs["href"], "/")) >= 3
                 /\ outcome.payload["steamid"]
                        = Split(avatar.attrs["href"], "/")[3]

\* C5: on the identity provider's page without avatar: notification with
\* 'Steam level' gives UserLevelError, else banner with 'public Steam
\* profile' gives PrivateProfile, else LoginError.
C5_NoAvatarFirstMatch ==
    (LoginEndedAtOpenid /\ find(html, "a", "nav_avatar") = None) =>
        LET notification == find(html, "div", "notification")
            warning      == find(html, "div", "notification--warning")
            level        == notification # None
                            /\ Contains(notification.text, "Steam level")
            private      == warning # None
                            /\ Contains(warning.text, "public Steam profile")
        IN  /\ outcome.kind = "raise"
            /\ level => outcome.exc = "UserLevelError"
            /\ (~level /\ private) => outcome.exc = "PrivateProfile"
            /\ (~level /\ ~private) => outcome.exc = "LoginError"

C5_Witness ==
    /\ LoginEndedAtOpenid /\ find(html, "a", "nav_avatar") = None
    /\ \E i, j \in 1..Len(html) :
         /\ i # j
         /\ html[i].class = {"notification"}
         /\ Contains(html[i].text, "Steam level")
         /\ html[j].class = {"notification--warning"}
         /\ Contains(html[j].text, "public Steam profile")
    /\ outcome.exc = "UserLevelError"

\* C6 (as claimed): every returned payload has success = True and steamid =
\* the avatar link's third path segment, whatever the form's inputs.
C6_PayloadIdentity ==
    (op = "do_login" /\ outcome.kind = "return") =>
        /\ outcome.payload["success"] = PyTrue
        /\ outcome.payload["steamid"]
               = Split(find(html, "a", "nav_avatar").attrs["href"], "/")[3]

\* the name/value pairs of a form's well-formed inputs
PairsOf(inputs) ==
    {<<inputs[i]["name"], inputs[i]["value"]>> : i \in WellFormed(inputs)}

\* a mapping holds one value per key: it carries a pair iff it maps so
Carries(d, pair) == pair[1] \in DOMAIN d /\ d[pair[1]] = pair[2]

\* C7 (as claimed): every name/value pair of a well-formed login-form input
\* is in the data POSTed and in the payload returned, both values of two
\* inputs of one name included; malformed inputs never make do_login fail.
C7_FieldsVerbatim ==
    (op = "do_login" /\ form # None) =>
        /\ Len(requests) >= 2 =>
             \A pair \in PairsOf(form.inputs) : Carries(requests[2].data, pair)
        /\ outcome.kind = "return" =>
             \A pair \in PairsOf(form.inputs) : Carries(outcome.payload, pair)
        /\ Len(requests) = 1 => outcome.kind = "pending"

\* C8: bump on html with the login indicator and the open-trade marker
\* fails with TradeClosedError carrying the TradeInfo's id and title, issues
\* no request, form or no form, tokens or no tokens.
C8_ClosedFirst ==
    (op = "bump" /\ pc # "start" /\ HasAvatar /\ HasOpenMarker) =>
        /\ Done
        /\ outcome.kind = "raise" /\ outcome.exc = "TradeClosedError"
        /\ outcome.id = trade_info.id /\ outcome.title = trade_info.title
        /\ requests = <<>>

C8_Witness ==
    /\ op = "bump" /\ Done /\ HasAvatar /\ HasOpenMarker /\ ~HasForm
    /\ outcome.exc = "TradeClosedError" /\ outcome.id = "Uq1x"

\* C9: bump on html with the login indicator, no open-trade marker and no
\* form fails with NoTradesError and issues no request.
C9_NoFormNoTrades ==
    (op = "bump" /\ pc # "start" /\ HasAvatar /\ ~HasOpenMarker /\ ~HasForm) =>
        /\ Done
        /\ outcome = Raise("NoTradesError")
        /\ requests = <<>>

C9_Witness ==
    /\ op = "bump" /\ Done /\ HasAvatar /\ ~HasOpenMarker /\ ~HasForm
    /\ outcome.exc = "NoTradesError"

\* C10: bump on html that passes the login and open-trade checks and has a
\* form: if the fields lack 'code' or 'xsrf_token' it raises an unclassified
\* lookup error and issues no request; if every input is well formed and both
\* are there, it POSTs exactly {code, xsrf_token, do: 'trade_bump'} with the
\* two values from the form.
C10_TokenFields ==
    (op = "bump" /\ pc # "start" /\ HasAvatar /\ ~HasOpenMarker /\ HasForm) =>
        LET inputs == findTag(trade_info.html, "form").inputs
            names  == {inputs[i]["name"] : i \in WellFormed(inputs)}
            values(n) == {inputs[i]["value"] :
                             i \in {k \in WellFormed(inputs) :
                                       inputs[k]["name"] = n}}
        IN  /\ ~({"code", "xsrf_token"} \subseteq names) =>
                 /\ Done
                 /\ outcome = Raise("KeyError")
                 /\ requests = <<>>
            /\ (WellFormed(inputs) = 1..Len(inputs)
                /\ {"code", "xsrf_token"} \subseteq names) =>
                 /\ Len(requests) >= 1
                 /\ requests[1].method = "POST"
                 /\ requests[1].url = "https://www.steamtrades.com/ajax.php"
                 /\ DOMAIN requests[1].data = {"code", "xsrf_token", "do"}
                 /\ requests[1].data["do"] = "trade_bump"
                 /\ requests[1].data["code"] \in values("code")
                 /\ requests[1].data["xsrf_token"] \in values("xsrf_token")

C10_Witness ==
    /\ op = "bump" /\ Done /\ HasAvatar /\ ~HasOpenMarker /\ HasForm
    /\ outcome = Raise("KeyError")
    /\ LET inputs == findTag(trade_info.html, "form").inputs
       IN  /\ WellFormed(inputs) = 1..Len(inputs)
           /\ {inputs[i]["name"] : i \in 1..Len(inputs)} = {"code", "do"}

\* the bump endpoint has answered: html is its body
BumpAnswered == op = "bump" /\ Len(requests) >= 1 /\ pc # "await_bump"

\* the body is a JSON envelope whose popup_heading_h2 is an array of strings
IsEnvelope(body) ==
    body.json # <<>> /\ "popup_heading_h2" \in DOMAIN body.json[1]

\* the decimal integer a token spells, for tokens made of digits
IsDecimal(tok) ==
    tok # "" /\ \A i \in 1..Len(tok) :
        SubSeq(tok, i, i) \in {"0", "1", "2", "3", "4", "5", "6", "7", "8", "9"}

\* C11 (as claimed): whenever the bump answer contains 'Please wait another'
\* and is an envelope with key popup_heading_h2 holding an array of strings,
\* bump fails with TradeNotReadyError carrying the TradeInfo's id and title,
\* and requests no listing.
C11_CooldownAlwaysNotReady ==
    (BumpAnswered /\ IsCooldown(html) /\ IsEnvelope(html)) =>
        /\ Done
        /\ outcome.kind = "raise" /\ outcome.exc = "TradeNotReadyError"
        /\ outcome.id = trade_info.id /\ outcome.title = trade_info.title
        /\ Len(requests) = 1

\* C11 (amended): the same, when popup_heading_h2 is not empty and the 4th
\* space-delimited token of its first string is a decimal integer: time_left
\* is that integer ('Please wait another 7 minutes' gives 7), id and title
\* are the TradeInfo's, no listing is requested and nothing is returned.
C11_CooldownNotReady ==
    (BumpAnswered /\ IsCooldown(html) /\ IsEnvelope(html)) =>
        LET heading == html.json[1]["popup_heading_h2"]
            tokens  == Split(heading[1], " ")
        IN  (Len(heading) >= 1 /\ Len(tokens) >= 4 /\ IsDecimal(tokens[4])) =>
                /\ Done
                /\ outcome.kind = "raise"
                /\ outcome.exc = "TradeNotReadyError"
                /\ outcome.time_left = DecimalValue(tokens[4])
                /\ heading[1] = "Please wait another 7 minutes"
                       => outcome.time_left = 7
                /\ heading[1] = "Please wait another 12 minutes"
                       => outcome.time_left = 12
                /\ outcome.id = trade_info.id
                /\ outcome.title = trade_info.title
                /\ outcome.result = ""
                /\ Len(requests) = 1

C11_Witness ==
    /\ BumpAnswered /\ Done
    /\ html.text = "{\"popup_heading_h2\":[\"Please wait another 7 minutes\"]}"
    /\ outcome.exc = "TradeNotReadyError" /\ outcome.time_left = 7
    /\ outcome.id = "Uq1x"

\* C12: when the bump answer does not contain 'Please wait another', bump
\* requests the listing and returns True if the TradeInfo's id is a substring
\* of the listing's text, False if not; it raises nothing.
C12_SuccessPath ==
    (BumpAnswered /\ ~Contains(html.text, "Please wait another")) =>
        /\ outcome.kind # "raise"
        /\ pc = "await_listing" => outcome.kind = "pending"
        /\ Done =>
             /\ outcome.kind = "return"
             /\ outcome.result = PyTrue <=> Contains(text, trade_info.id)
             /\ outcome.result = PyFalse <=> ~Contains(text, trade_info.id)

C12_Witness ==
    /\ BumpAnswered /\ Done
    /\ html.text = "<div>Bumped</div>"
    /\ trade_info.id = "Uq1x"
    /\ Contains(text, "/trade/Uq1x/")
    /\ outcome.result = PyTrue

\* C13 (as claimed): the follow-up request after a non-cooldown bump answer is
\* a GET of {server}/trades.
C13_FollowUpIsGet ==
    (op = "bump" /\ Len(requests) >= 2) =>
        /\ requests[2].url = "https://www.steamtrades.com/trades"
        /\ requests[2].method = "GET"

\* C18: if the trade page's form holds an input without a name or without a
\* value, bump raises an unclassified lookup error, not NoTradesError, before
\* any request, even when its other inputs supply 'code' and 'xsrf_token'.
C18_MalformedInputFatal ==
    (op = "bump" /\ pc # "start" /\ HasAvatar /\ ~HasOpenMarker /\ HasForm) =>
        LET inputs == findTag(trade_info.html, "form").inputs
        IN  WellFormed(inputs) # 1..Len(inputs) =>
                /\ Done
                /\ outcome = Raise("KeyError")
                /\ requests = <<>>

C18_Witness ==
    /\ op = "bump" /\ Done /\ HasAvatar /\ ~HasOpenMarker /\ HasForm
    /\ LET inputs == findTag(trade_info.html, "form").inputs
       IN  /\ WellFormed(inputs) # 1..Len(inputs)
           /\ {"code", "xsrf_token"}
                  \subseteq {inputs[i]["name"] : i \in WellFormed(inputs)}
    /\ outcome.exc = "KeyError"

\* C19 (as claimed): on the identity provider's page, with the avatar and no
\* suspension badge do_login succeeds whatever notification or warning the
\* page shows; without the avatar it never raises UserSuspended, badge or no
\* badge.
C19_SignalsPerBranch ==
    LoginEndedAtOpenid =>
        LET avatar     == find(html, "a", "nav_avatar")
            nav_button == find(html, "a", "nav__button")
            suspended  == nav_button # None
                          /\ Contains(nav_button.text, "Suspensions")
        IN  /\ (avatar # None /\ ~suspended) => outcome.kind = "return"
            /\ avatar = None =>
                 /\ outcome.kind = "raise"
                 /\ outcome.exc \in {"UserLevelError", "PrivateProfile",
                                     "LoginError"}

\* C20: once a form was found on the login page, the page's badge and
\* banners are not read: nothing is raised at that stage, the collected
\* fields are POSTed to the identity provider, TooFast is never raised, and
\* the result is what the identity provider's page and the fields give.
C20_FormSkipsNotices ==
    (op = "do_login" /\ form # None) =>
        /\ outcome.exc # "TooFast"
        /\ pc \in {"post_openid", "await_openid"} => outcome.kind = "pending"
        /\ pc = "post_openid" =>
             /\ Len(requests) = 1
             /\ data = CollectSuppress(form.inputs, EmptyDict)
        /\ pc \in {"await_openid", "done"} =>
             /\ Len(requests) = 2
             /\ requests[2] = Request("POST",
                    "https://steamcommunity.com/openid/login",
                    CollectSuppress(form.inputs, EmptyDict))
        /\ Done =>
             /\ find(html, "a", "nav_avatar") = None =>
                    outcome.exc \in {"UserLevelError", "PrivateProfile",
                                     "LoginError"}
             /\ outcome.kind = "return" =>
                    \A k \in DOMAIN data : outcome.payload[k] = data[k]

C20_Witness ==
    /\ op = "do_login" /\ pc = "post_openid" /\ form # None
    /\ \E i, j \in 1..Len(html) :
         /\ "nav__button" \in html[i].class
         /\ Contains(html[i].text, "Suspensions")
         /\ "notification--warning" \in html[j].class
         /\ Contains(html[j].text, "Please wait")
    /\ outcome.kind = "pending"

\* C14: get_trade_info takes id and title from the response's resolved URL,
\* not from trade_id: id is index 2 of the '/'-split path, title is the last
\* path segment with '-' turned into ' ', cut to at most 22 characters, with
\* '...' appended always; /trade/123/some-long-trade-title-here gives id
\* '123' and title 'some long trade title ' + '...'.
C14_InfoFromResolvedUrl ==
    (op = "get_trade_info" /\ Done /\ Len(Split(url, "/")) >= 3) =>
        LET parts == Split(url, "/")
            last  == parts[Len(parts)]
            kept  == IF Len(last) < 22 THEN Len(last) ELSE 22
            title == outcome.info.title
        IN  /\ outcome.kind = "return"
            /\ outcome.info.id = parts[3]
            /\ outcome.info.html = html
            /\ Len(title) = kept + 3
            /\ SubSeq(title, kept + 1, kept + 3) = "..."
            /\ \A i \in 1..kept :
                 SubSeq(title, i, i) = IF SubSeq(last, i, i) = "-" THEN " "
                                       ELSE SubSeq(last, i, i)
            /\ url = "/trade/123/some-long-trade-title-here" =>
                 /\ outcome.info.id = "123"
                 /\ title = "some long trade title ..."

C14_Witness ==
    /\ op = "get_trade_info" /\ Done
    /\ trade_id = "uq1x-keys" /\ url = "/trade/Uq1x/keys"
    /\ outcome.info.id = "Uq1x" /\ outcome.info.title = "keys..."

\* the method and URL of each request issued, in order
Issued == [i \in 1..Len(requests) |->
              <<requests[i].method, requests[i].url>>]

IsPrefix(p, q) == Len(p) <= Len(q) /\ \A i \in 1..Len(p) : p[i] = q[i]

\* C15: no retries and a fixed order: do_login issues a prefix of [GET login
\* page, POST {openid_url}/login], the POST only after a form was found; bump
\* issues a prefix of [POST bump endpoint, listing request]; get_trade_info
\* issues its one GET; no request is repeated, and once a call has failed or
\* returned it issues nothing more.
C15_RequestOrder ==
    /\ [](/\ op = "do_login" =>
               /\ IsPrefix(Issued,
                     << <<"GET", "https://steamtrades.com/?login">>,
                        <<"POST", "https://steamcommunity.com/openid/login">> >>)
               /\ Len(requests) = 2 => form # None
               /\ pc # "start" => Len(requests) >= 1
          /\ op = "bump" =>
               /\ Len(requests) <= 2
               /\ Len(requests) >= 1 =>
                    Issued[1] = <<"POST", "https://www.steamtrades.com/ajax.php">>
               /\ Len(requests) = 2 =>
                    requests[2].url = "https://www.steamtrades.com/trades"
          /\ op = "get_trade_info" =>
               /\ Len(requests) <= 1
               /\ pc # "start" =>
                    Issued = << <<"GET", "https://www.steamtrades.com/trade/"
                                         \o trade_id \o "/">> >>
          /\ outcome.kind # "pending" => Done)
    /\ [][/\ outcome.kind # "pending" => requests' = requests
          /\ IsPrefix(requests, requests')
          /\ Len(requests') <= Len(requests) + 1]_vars

C15_Witness ==
    /\ op = "do_login" /\ Done
    /\ outcome.exc = "TooFast"
    /\ Len(requests) = 1

\* what a bump call that ran alone on info ends with, given the bump
\* endpoint's answer and the listing it received
AloneOutcome(info, body, listing) ==
    LET exc == BumpPrecheck(info)
    IN  IF exc = "TradeClosedError" THEN RaiseTradeClosed(info)
        ELSE IF exc # "" THEN Raise(exc)
        ELSE IF IsCooldown(body)
        THEN IF MinutesLeft(body).ok
             THEN RaiseTradeNotReady(info, MinutesLeft(body).value)
             ELSE Raise(MinutesLeft(body).exc)
        ELSE ReturnBool(Contains(listing, info.id))

\* the requests call c issued on the shared session
RequestsOf(c) == SelectSeq(calls.session, LAMBDA r : r.call = c)

\* C16: two bump calls interleaved on one instance are independent: each
\* call's outcome is what it would be alone, given its own TradeInfo and the
\* answers to its own requests; a step of one call leaves the other call's
\* frame as it was; and no TradeInfo ever changes.
C16_ConcurrentBumpsIndependent ==
    /\ [](\A c \in Calls :
            LET f == calls.frame[c]
            IN  /\ Len(RequestsOf(c)) =
                     CASE f.pc = "start" -> 0
                       [] f.pc = "await_bump" -> 1
                       [] f.pc = "await_listing" -> 2
                       [] BumpPrecheck(f.trade_info) # "" -> 0
                       [] f.html # <<>> /\ IsCooldown(f.html) -> 1
                       [] OTHER -> 2
                /\ f.pc # "done" => f.outcome = Pending
                /\ f.pc = "done" =>
                     f.outcome = AloneOutcome(f.trade_info, f.html, f.text))
    /\ [][/\ \A c \in Calls :
               calls'.frame[c].trade_info = calls.frame[c].trade_info
          /\ \E c \in Calls :
               \A d \in Calls \ {c} : calls'.frame[d] = calls.frame[d]]_vars

\* both calls ended, with different outcomes, their requests interleaved
C16_Witness ==
    /\ op = "bumps"
    /\ calls.frame[1].pc = "done" /\ calls.frame[2].pc = "done"
    /\ [i \in 1..Len(calls.session) |-> calls.session[i].call] = <<2, 1, 2>>
    /\ calls.frame[1].outcome.exc = "TradeNotReadyError"
    /\ calls.frame[1].outcome.id = "Uq1x"
    /\ calls.frame[2].outcome.result = PyTrue
    /\ calls.frame[2].trade_info.id = "77"

====
